---------------------------- MODULE Spec2Model ----------------------------
(***************************************************************************)
(* A model of the uor_framework library (src/src/lib.rs): the Manifold     *)
(* graph (add_node / add_edge), the MemoryCortex, and the CognitiveStack   *)
(* pipeline (process) with its pluggable stages.                           *)
(*                                                                         *)
(* Four specifications share the module:                                   *)
(*   ManifoldSpec  a caller building one Manifold from Manifold::new()     *)
(*                 with add_node and add_edge;                             *)
(*   ChartSpec     a caller of Chart::from_json and Chart::parse;          *)
(*   Spec          a caller constructing CognitiveStacks, running process  *)
(*                 on them and calling link_manifold on their Cortex;      *)
(*   LiveSpec      a caller running process again and again on one stack,  *)
(*                 every stage call returning (weak fairness).             *)
(***************************************************************************)
EXTENDS Integers, Sequences, FiniteSets, TLC

\* ------------------------------------------------------------------ bounds
\* Node ids are Strings in the source; the model draws them from 1..MaxIds.
MaxIds == 2
\* Number of add_node / add_edge calls made on the manifold under construction.
MaxOps == 4

NodeIds == 1..MaxIds
\* Node payloads (ManifoldNode.data), as in the tests.
NodeData == {"D1", "D2"}

\* ------------------------------------------------------------- UorResult
Ok(v) == [ok |-> TRUE, val |-> v]
Err(e) == [ok |-> FALSE, err |-> e]
\* The unit value ().
Unit == "()"

\* UorError variants, with their message.
General(msg) == [kind |-> "General", msg |-> msg]
ChartError(msg) == [kind |-> "ChartError", msg |-> msg]
ConcurrencyError(msg) == [kind |-> "ConcurrencyError", msg |-> msg]
Other(msg) == [kind |-> "Other", msg |-> msg]

\* --------------------------------------------------------------- Manifold
\* format!("Cannot add edge from {} to {}: Node(s) not found", from, to)
edge_msg(from, to) == <<"Cannot add edge from ", from, " to ", to, ": Node(s) not found">>

\* HashMap::contains_key
contains_key(map, k) == k \in DOMAIN map

\* HashMap::insert: inserts or overwrites the value under k.
insert(map, k, v) == [x \in (DOMAIN map) \cup {k} |-> IF x = k THEN v ELSE map[x]]

\* HashMap::entry(k).or_default() on a map of Vecs: the map with an empty Vec
\* under k when k was vacant.
entry_or_default(map, k) == IF k \in DOMAIN map THEN map ELSE insert(map, k, <<>>)

ManifoldNode(id, data) == [id |-> id, data |-> data]

\* Manifold::new
Manifold_new == [nodes |-> <<>>, edges |-> <<>>]

\* The destinations of the edges that leave the ids of S.
Successors(m, S) ==
    UNION {{m.edges[a][j] : j \in 1..Len(m.edges[a])} : a \in S \cap DOMAIN m.edges}

RECURSIVE ReachableFrom(_, _, _)
\* The ids reached from the ids of S along 1 to n edges.
ReachableFrom(m, S, n) ==
    IF n = 0 THEN {}
    ELSE LET next == Successors(m, S)
         IN  next \cup ReachableFrom(m, next, n - 1)

\* There is a directed path of one or more edges from a to b (a path that
\* repeats no node has at most as many edges as the manifold has nodes).
Reaches(m, a, b) == b \in ReachableFrom(m, {a}, Cardinality(DOMAIN m.nodes))

\* Manifold::add_node that starts the node with no outgoing edges (a faulty
\* variant: inserting an id drops its adjacency list).
add_node_clears_edges(self, node) ==
    [nodes |-> insert(self.nodes, node.id, node),
     edges |-> [x \in (DOMAIN self.edges) \ {node.id} |-> self.edges[x]]]

\* Manifold::add_node with the id check of add_edge's kind (a faulty variant): refuses
\* to overwrite an id that is present.
add_node_keep_first(self, node) ==
    IF contains_key(self.nodes, node.id) THEN self
    ELSE [self EXCEPT !.nodes = insert(self.nodes, node.id, node)]

\* Manifold::add_node
add_node(self, node) == [self EXCEPT !.nodes = insert(self.nodes, node.id, node)]

\* Manifold::add_edge that takes the entry before it checks the endpoints
\* (a faulty variant): a failed call leaves an empty adjacency list behind.
add_edge_entry_first(self, from, to) ==
    LET touched == [self EXCEPT !.edges = entry_or_default(self.edges, from)]
    IN  IF ~contains_key(self.nodes, from) \/ ~contains_key(self.nodes, to)
        THEN [self |-> touched, ret |-> Err(General(edge_msg(from, to)))]
        ELSE [self |-> [touched EXCEPT !.edges[from] = Append(@, to)],
              ret |-> Ok(Unit)]

\* Manifold::add_edge that checks only the source endpoint (a faulty variant).
add_edge_from_only(self, from, to) ==
    IF ~contains_key(self.nodes, from)
    THEN [self |-> self, ret |-> Err(General(edge_msg(from, to)))]
    ELSE LET e == entry_or_default(self.edges, from)
         IN  [self |-> [self EXCEPT !.edges = [e EXCEPT ![from] = Append(@, to)]],
              ret |-> Ok(Unit)]

\* Manifold::add_edge that skips a destination already in the list (a faulty
\* variant: the adjacency list treated as a set).
add_edge_dedup(self, from, to) ==
    IF ~contains_key(self.nodes, from) \/ ~contains_key(self.nodes, to)
    THEN [self |-> self, ret |-> Err(General(edge_msg(from, to)))]
    ELSE LET e == entry_or_default(self.edges, from)
         IN  IF \E j \in 1..Len(e[from]) : e[from][j] = to
             THEN [self |-> [self EXCEPT !.edges = e], ret |-> Ok(Unit)]
             ELSE [self |-> [self EXCEPT !.edges = [e EXCEPT ![from] = Append(@, to)]],
                   ret |-> Ok(Unit)]

\* Manifold::add_edge reporting the missing endpoint as UorError::Other (a
\* faulty variant).
add_edge_other_error(self, from, to) ==
    IF ~contains_key(self.nodes, from) \/ ~contains_key(self.nodes, to)
    THEN [self |-> self, ret |-> Err(Other(edge_msg(from, to)))]
    ELSE LET e == entry_or_default(self.edges, from)
         IN  [self |-> [self EXCEPT !.edges = [e EXCEPT ![from] = Append(@, to)]],
              ret |-> Ok(Unit)]

\* Manifold::add_edge keeping the graph acyclic (a faulty variant): an edge
\* that closes a directed cycle, a self-loop included, is refused.
add_edge_acyclic(self, from, to) ==
    IF ~contains_key(self.nodes, from) \/ ~contains_key(self.nodes, to)
    THEN [self |-> self, ret |-> Err(General(edge_msg(from, to)))]
    ELSE IF from = to \/ Reaches(self, to, from)
    THEN [self |-> self, ret |-> Err(General(<<"cycle">>))]
    ELSE LET e == entry_or_default(self.edges, from)
         IN  [self |-> [self EXCEPT !.edges = [e EXCEPT ![from] = Append(@, to)]],
              ret |-> Ok(Unit)]

\* Manifold::add_edge: the manifold after the call and the value returned.
add_edge(self, from, to) ==
    IF ~contains_key(self.nodes, from) \/ ~contains_key(self.nodes, to)
    THEN [self |-> self, ret |-> Err(General(edge_msg(from, to)))]
    ELSE LET e == entry_or_default(self.edges, from)
         IN  [self |-> [self EXCEPT !.edges = [e EXCEPT ![from] = Append(@, to)]],
              ret |-> Ok(Unit)]

\* ------------------------------------------------------------------ chart
\* Length of the strings handed to Chart::from_json in the model.
MaxStrLen == 2
\* Length of the name and version strings in the model.
MaxNameLen == 1
\* Strings are sequences of characters.
Chars == {"{", "}"}
Strings == UNION {[1..n -> Chars] : n \in 0..MaxStrLen}
Names == UNION {[1..n -> Chars] : n \in 0..MaxNameLen}

\* str::is_empty
is_empty(str) == Len(str) = 0

\* struct Chart
Chart(name, version, raw_json) == [name |-> name, version |-> version, raw_json |-> raw_json]

\* Chart::from_json storing whatever it is given (a faulty variant: the check
\* for empty JSON is missing).
from_json_unchecked(name, version, json_data) == Ok(Chart(name, version, json_data))

\* Chart::from_json
from_json(name, version, json_data) ==
    IF is_empty(json_data)
    THEN Err(ChartError(<<"Provided JSON for Chart is empty.">>))
    ELSE Ok(Chart(name, version, json_data))

\* Chart::parse
parse(self) == Ok(Unit)

\* ----------------------------------------------------------------- cortex
\* Program constant: the number of prime references of a MemoryCortex.
CortexSize == 144

\* Option<f64>
None == <<>>
Some(x) == <<x>>

PrimeReference(prime_index, data) == [prime_index |-> prime_index, data |-> data]

\* MemoryCortex::new_144 collecting one reference too few (a faulty variant).
new_143 ==
    [references |-> [k \in 1..(CortexSize - 1) |-> PrimeReference(k - 1, None)]]

\* MemoryCortex::new_144: (0..144).map(|i| PrimeReference{prime_index: i, data: None}).
\* The reference at Vec position p is references[p + 1].
new_144 == [references |-> [k \in 1..CortexSize |-> PrimeReference(k - 1, None)]]

\* impl Default for MemoryCortex
MemoryCortex_default == new_144

\* MemoryCortex::link_manifold that registers the manifold in a new reference
\* (a faulty variant).
link_manifold_push(self, m) ==
    [self |-> [self EXCEPT !.references =
                   Append(@, PrimeReference(Len(@), None))],
     ret |-> Ok(Unit)]

\* MemoryCortex::link_manifold: the cortex after the call and the value returned.
link_manifold(self, m) == [self |-> self, ret |-> Ok(Unit)]

\* ----------------------------------------------------------------- stages
\* The manifold of test_cognitive_stack_process_multiple_models: two nodes, one edge.
TestManifold ==
    add_edge(add_node(add_node(Manifold_new, ManifoldNode(1, "D1")),
                      ManifoldNode(2, "D2")), 1, 2).self

\* Manifolds a caller hands to process and a user-written stage may return.
SampleManifolds == {Manifold_new, TestManifold}

\* Errors a user-written stage may return.
StageErrors == {General(<<"stage failed">>), ConcurrencyError(<<"dispatch failed">>)}

\* The stage types: the library's own, and "Custom" for any implementation of
\* the trait supplied by the host application.
ModelKinds == {"NullFoundationModel", "UorKernel", "Custom"}
SchedulerKinds == {"RoundRobinScheduler", "Custom"}
OperatorKinds == {"ExampleOperator", "Custom"}
EmbeddingKinds == {"DefaultQuaternionEmbedding", "Custom"}

\* What a user-written transform (FoundationModel or HpcOperator) may return on
\* input: a clone of the input, another manifold, or an error.
CustomTransform(input) ==
    {Ok(m) : m \in {input} \cup SampleManifolds} \cup {Err(e) : e \in StageErrors}

\* NullFoundationModel::process_manifold
NullFoundationModel_process_manifold(input) == Ok(input)

\* UorKernel::process_manifold returning a new manifold for the clone of its
\* input (a faulty variant).
UorKernel_process_manifold_fresh(input) == Ok(Manifold_new)

\* UorKernel::process_manifold
UorKernel_process_manifold(input) == Ok(input)

\* FoundationModel::process_manifold(&mut self, input: &Manifold): the results a
\* stage of the given kind may return.
process_manifold(kind, input) ==
    CASE kind = "NullFoundationModel" -> {NullFoundationModel_process_manifold(input)}
      [] kind = "UorKernel" -> {UorKernel_process_manifold(input)}
      [] OTHER -> CustomTransform(input)

\* RoundRobinScheduler::schedule
RoundRobinScheduler_schedule(m) == Ok(Unit)

\* Scheduler::schedule(&mut self, manifold: &Manifold) -> UorResult<()>
schedule(kind, m) ==
    CASE kind = "RoundRobinScheduler" -> {RoundRobinScheduler_schedule(m)}
      [] OTHER -> {Ok(Unit)} \cup {Err(e) : e \in StageErrors}

\* ExampleOperator::apply
ExampleOperator_apply(m) == Ok(m)

\* HpcOperator::apply(&self, manifold: &Manifold) -> UorResult<Manifold>
apply(kind, m) ==
    CASE kind = "ExampleOperator" -> {ExampleOperator_apply(m)}
      [] OTHER -> CustomTransform(m)

Quaternion(w, x, y, z) == [w |-> w, x |-> x, y |-> y, z |-> z]

\* Vec positions of the references a user-written embedding writes in the model
\* (the first and the last), and the payloads it writes.
WriteSlots == {0, CortexSize - 1}
Payloads == {1}

\* DefaultQuaternionEmbedding::embed_manifold storing w of its quaternion in the
\* first reference (a faulty variant).
DefaultQuaternionEmbedding_embed_manifold_storing(m, cx) ==
    [cortex |-> [cx EXCEPT !.references[1].data = Some(1)],
     ret |-> Ok(<<Quaternion(1, 0, 0, 0)>>)]

\* DefaultQuaternionEmbedding::embed_manifold: the cortex is not touched.
DefaultQuaternionEmbedding_embed_manifold(m, cx) ==
    [cortex |-> cx, ret |-> Ok(<<Quaternion(1, 0, 0, 0)>>)]

\* QuaternionEmbedding::embed_manifold(&self, &Manifold, &mut MemoryCortex): the
\* outcomes (cortex after the call, value returned) an embedding of the given kind
\* may produce. A user-written one may write the data of a reference and then
\* succeed or fail; it keeps to the Cortex contract and leaves the Vec of
\* references itself (its length, the prime_index fields) as constructed.
embed_manifold(kind, m, cx) ==
    CASE kind = "DefaultQuaternionEmbedding" ->
            {DefaultQuaternionEmbedding_embed_manifold(m, cx)}
      [] OTHER ->
            LET after == {cx} \cup
                    {[cx EXCEPT !.references[p + 1].data = Some(v)] :
                        p \in WriteSlots, v \in Payloads}
                rets == {Ok(<<Quaternion(1, 0, 0, 0)>>)} \cup {Err(e) : e \in StageErrors}
            IN  {[cortex |-> c, ret |-> r] : c \in after, r \in rets}

\* ------------------------------------------------------------------ state
\* Number of Domain Transform stages a stack is built with in the model.
MaxModels == 2
\* Number of stacks (and so Cortexes) constructed one after the other.
MaxBuilt == 2
\* Program constant: the "up to 12 slots for foundation models" of the
\* comments on CognitiveStack, which no code checks.
StageSlots == 12

VARIABLES
    \* ManifoldSpec: the manifold a caller builds, and the calls made on it
    \* (history: each add_node / add_edge call with its arguments and result).
    manifold, log,
    \* struct CognitiveStack: its fields (the stage fields hold the kind of the
    \* boxed implementation).
    models, embedding, operator, scheduler, cortex,
    \* CognitiveStack::process: where the run stands ("idle": no run since the
    \* stack was constructed; "models", "schedule", "apply", "embed": the stage
    \* call that comes next; "done": process has returned), the index of the
    \* next model of the for loop, the local variable manifold, and the value
    \* process returned (<<>> while there is none).
    pc, idx, working, result,
    \* History of the current run: the stage calls that have returned (stage,
    \* argument, result), and the Cortex and the manifold process was called with.
    trace, cortex0, input,
    \* History: how the previous run on this stack ended ("none", "ok", "err").
    prev,
    \* The stage calls process has made that have not returned yet.
    active,
    \* ChartSpec: the last Chart::from_json call (arguments and result) and the
    \* result of parse on the chart it returned (<<>> while there is none).
    chartCall, parsed,
    \* The last call made on the stack, and the number of stacks constructed.
    lastCall, built

manifoldVars == <<manifold, log>>
stackVars == <<models, embedding, operator, scheduler, cortex>>
runVars == <<pc, idx, working, result, trace, cortex0, input, prev, active>>
chartVars == <<chartCall, parsed>>
vars == <<manifold, log, models, embedding, operator, scheduler, cortex,
          pc, idx, working, result, trace, cortex0, input, prev, active,
          chartCall, parsed, lastCall, built, chartVars>>

\* The stage lists a caller passes to new_default. models is a Vec<M>: the
\* stages of one stack have the one type M, a user type ("Custom" throughout) or
\* a type of the library; the lists over the library's two stubs include the
\* mixed ones that test_cognitive_stack_process_multiple_models builds. One
\* list is longer than the 12 slots the comments speak of.
ModelLists ==
    {[k \in 1..n |-> "Custom"] : n \in 0..MaxModels}
        \cup UNION {[1..n -> {"NullFoundationModel", "UorKernel"}] : n \in 0..MaxModels}
        \cup {[k \in 1..(StageSlots + 1) |-> "NullFoundationModel"]}

\* The stage a trace entry names.
Stage(name, k) == [name |-> name, k |-> k]
Call(stage, arg, ret) == [stage |-> stage, arg |-> arg, ret |-> ret]

\* The for loop stopping after the 12 slots the comments speak of (a faulty
\* variant: models.iter_mut().take(12)).
LoopNextCapped(k, n) == IF k > n \/ k > StageSlots THEN "schedule" ELSE "models"

\* The for loop falling through to the operator, past the scheduler (a faulty variant).
LoopNextPastScheduler(k, n) == IF k > n THEN "apply" ELSE "models"

\* The program point after the for loop has taken model k - 1 of n.
LoopNext(k, n) == IF k > n THEN "schedule" ELSE "models"

\* ---------------------------------------------------------- ManifoldSpec
\* manifold.add_node(ManifoldNode { id, data })
AddNode(id, data) ==
    /\ Len(log) < MaxOps
    /\ manifold' = add_node(manifold, ManifoldNode(id, data))
    /\ log' = Append(log, [op |-> "add_node", id |-> id, data |-> data])
    /\ UNCHANGED <<stackVars, runVars, lastCall, built, chartVars>>

\* manifold.add_edge(from, to)
AddEdge(from, to) ==
    /\ Len(log) < MaxOps
    /\ LET r == add_edge(manifold, from, to)
       IN  /\ manifold' = r.self
           /\ log' = Append(log, [op |-> "add_edge", from |-> from, to |-> to,
                                  ret |-> r.ret])
    /\ UNCHANGED <<stackVars, runVars, lastCall, built, chartVars>>

\* -------------------------------------------------------------- ChartSpec
\* Chart::from_json(name, version, json_data)
FromJson(name, version, json_data) ==
    /\ chartCall' = <<[name |-> name, version |-> version, json_data |-> json_data,
                       ret |-> from_json(name, version, json_data)]>>
    /\ parsed' = <<>>
    /\ UNCHANGED <<manifoldVars, stackVars, runVars, lastCall, built>>

\* chart.parse() on the chart the last from_json returned.
Parse ==
    /\ chartCall # <<>>
    /\ chartCall[1].ret.ok
    /\ parsed = <<>>
    /\ parsed' = <<parse(chartCall[1].ret.val)>>
    /\ UNCHANGED <<manifoldVars, stackVars, runVars, lastCall, built, chartCall>>

\* ------------------------------------------------------------------ stack
\* The fields of a stack that new_default(ms) or default() returns.
Constructed(ms, call) ==
    /\ models' = ms
    /\ embedding' = "DefaultQuaternionEmbedding"
    /\ operator' = "ExampleOperator"
    /\ scheduler' = "RoundRobinScheduler"
    /\ cortex' = MemoryCortex_default
    /\ pc' = "idle"
    /\ idx' = 0
    /\ working' = Manifold_new
    /\ result' = <<>>
    /\ trace' = <<>>
    /\ cortex0' = MemoryCortex_default
    /\ input' = Manifold_new
    /\ prev' = "none"
    /\ active' = {}
    /\ lastCall' = call

\* CognitiveStack::new_default(models), replacing the caller's previous stack.
NewDefault(ms) ==
    /\ pc \in {"idle", "done"}
    /\ built < MaxBuilt
    /\ built' = built + 1
    /\ Constructed(ms, "new_default")
    /\ UNCHANGED <<manifoldVars, chartVars>>

\* CognitiveStack::default() leaving the stage list empty (a faulty variant:
\* vec![] for vec![M::default()]).
DefaultWithoutModel(kind) ==
    /\ pc \in {"idle", "done"}
    /\ built < MaxBuilt
    /\ built' = built + 1
    /\ Constructed(<<>>, "default")
    /\ UNCHANGED <<manifoldVars, chartVars>>

\* CognitiveStack::<M>::default() for a model type M with a Default.
Default(kind) ==
    /\ pc \in {"idle", "done"}
    /\ built < MaxBuilt
    /\ built' = built + 1
    /\ Constructed(<<kind>>, "default")
    /\ UNCHANGED <<manifoldVars, chartVars>>

\* The caller replaces the public fields scheduler, operator and embedding of a
\* stack it has just constructed with implementations of its own.
Install(s, o, e) ==
    /\ pc = "idle"
    /\ lastCall \in {"new_default", "default"}
    /\ <<s, o, e>> # <<scheduler, operator, embedding>>
    /\ scheduler' = s
    /\ operator' = o
    /\ embedding' = e
    /\ lastCall' = "install"
    /\ UNCHANGED <<manifoldVars, models, cortex, runVars, built, chartVars>>

\* stack.cortex.link_manifold(&m), between runs.
LinkManifold(m) ==
    /\ pc \in {"idle", "done"}
    /\ cortex' = link_manifold(cortex, m).self
    /\ lastCall' = "link_manifold"
    /\ UNCHANGED <<manifoldVars, models, embedding, operator, scheduler, runVars, built, chartVars>>

\* The stage call process makes at its current program point.
CurrentStage ==
    IF pc = "models" THEN Stage("process_manifold", idx)
    ELSE IF pc = "schedule" THEN Stage("schedule", 0)
    ELSE IF pc = "apply" THEN Stage("apply", 0)
    ELSE Stage("embed_manifold", 0)

\* process calls the stage of its current program point: control passes to the
\* stage, and process goes on when the call returns (the step of that stage).
CallStage ==
    /\ pc \in {"models", "schedule", "apply", "embed"}
    /\ CurrentStage \notin active
    /\ active' = active \cup {CurrentStage}
    /\ UNCHANGED <<manifoldVars, chartVars, stackVars, pc, idx, working, result,
                   trace, cortex0, input, prev, lastCall, built>>

\* The call of stage is in progress and returns in this step.
Returns(stage) ==
    /\ stage \in active
    /\ active' = active \ {stage}

\* How a run that has returned ended.
Outcome == IF pc = "done" THEN (IF result[1].ok THEN "ok" ELSE "err") ELSE prev

\* stack.process(m) going on where the previous run on the stack stopped (a
\* faulty variant: the position in the stage list is kept in the stack).
ProcessStartResumes(m) ==
    /\ pc \in {"idle", "done"}
    /\ idx' = IF pc = "done" THEN idx ELSE 1
    /\ pc' = LoopNext(idx', Len(models))
    /\ working' = m
    /\ result' = <<>>
    /\ trace' = <<>>
    /\ cortex0' = cortex
    /\ input' = m
    /\ prev' = Outcome
    /\ active' = {}
    /\ lastCall' = "process"
    /\ UNCHANGED <<manifoldVars, stackVars, built, chartVars>>

\* stack.process(m) is called: the run starts at the head of the for loop.
ProcessStart(m) ==
    /\ pc \in {"idle", "done"}
    /\ pc' = LoopNext(1, Len(models))
    /\ idx' = 1
    /\ working' = m
    /\ result' = <<>>
    /\ trace' = <<>>
    /\ cortex0' = cortex
    /\ input' = m
    /\ prev' = Outcome
    /\ active' = {}
    /\ lastCall' = "process"
    /\ UNCHANGED <<manifoldVars, stackVars, built, chartVars>>

\* The for loop stepping over the stage that follows a successful one (a faulty variant).
ModelStepSkipsNext ==
    /\ pc = "models"
    /\ Returns(Stage("process_manifold", idx))
    /\ \E r \in process_manifold(models[idx], working) :
        /\ trace' = Append(trace, Call(Stage("process_manifold", idx), working, r))
        /\ IF r.ok
           THEN /\ working' = r.val
                /\ idx' = idx + 2
                /\ pc' = LoopNext(idx + 2, Len(models))
                /\ result' = result
           ELSE /\ pc' = "done"
                /\ result' = <<Err(r.err)>>
                /\ UNCHANGED <<working, idx>>
    /\ UNCHANGED <<manifoldVars, stackVars, cortex0, input, prev, lastCall, built, chartVars>>

\* The for loop going on to the next stage when a stage fails, keeping the
\* manifold it had (a faulty variant: the ? is missing).
ModelStepIgnoresFailure ==
    /\ pc = "models"
    /\ Returns(Stage("process_manifold", idx))
    /\ \E r \in process_manifold(models[idx], working) :
        /\ trace' = Append(trace, Call(Stage("process_manifold", idx), working, r))
        /\ working' = IF r.ok THEN r.val ELSE working
        /\ idx' = idx + 1
        /\ pc' = LoopNext(idx + 1, Len(models))
        /\ result' = result
    /\ UNCHANGED <<manifoldVars, stackVars, cortex0, input, prev, lastCall, built, chartVars>>

\* The for loop calling the stage and not assigning its result, so that every
\* stage receives the manifold process was called with (a faulty variant).
ModelStepKeepsInput ==
    /\ pc = "models"
    /\ Returns(Stage("process_manifold", idx))
    /\ \E r \in process_manifold(models[idx], working) :
        /\ trace' = Append(trace, Call(Stage("process_manifold", idx), working, r))
        /\ IF r.ok
           THEN /\ idx' = idx + 1
                /\ pc' = LoopNext(idx + 1, Len(models))
                /\ result' = result
           ELSE /\ pc' = "done"
                /\ result' = <<Err(r.err)>>
                /\ idx' = idx
    /\ UNCHANGED <<manifoldVars, stackVars, working, cortex0, input, prev, lastCall, built, chartVars>>

\* The for loop calling a stage again when it fails (a faulty variant: a retry
\* in place of the ?).
ModelStepRetries ==
    /\ pc = "models"
    /\ Returns(Stage("process_manifold", idx))
    /\ \E r \in process_manifold(models[idx], working) :
        /\ trace' = Append(trace, Call(Stage("process_manifold", idx), working, r))
        /\ IF r.ok
           THEN /\ working' = r.val
                /\ idx' = idx + 1
                /\ pc' = LoopNext(idx + 1, Len(models))
           ELSE UNCHANGED <<working, idx, pc>>
        /\ result' = result
    /\ UNCHANGED <<manifoldVars, stackVars, cortex0, input, prev, lastCall, built, chartVars>>

\* One iteration of the for loop:
\*     manifold = model.process_manifold(&manifold)?;
ModelStep ==
    /\ pc = "models"
    /\ Returns(Stage("process_manifold", idx))
    /\ \E r \in process_manifold(models[idx], working) :
        /\ trace' = Append(trace, Call(Stage("process_manifold", idx), working, r))
        /\ IF r.ok
           THEN /\ working' = r.val
                /\ idx' = idx + 1
                /\ pc' = LoopNext(idx + 1, Len(models))
                /\ result' = result
           ELSE /\ pc' = "done"
                /\ result' = <<Err(r.err)>>
                /\ UNCHANGED <<working, idx>>
    /\ UNCHANGED <<manifoldVars, stackVars, cortex0, input, prev, lastCall, built, chartVars>>

\* The scheduling step clearing the Cortex when the scheduler fails (a faulty variant).
ScheduleStepClearsCortex ==
    /\ pc = "schedule"
    /\ Returns(Stage("schedule", 0))
    /\ \E r \in schedule(scheduler, working) :
        /\ trace' = Append(trace, Call(Stage("schedule", 0), working, r))
        /\ IF r.ok
           THEN /\ pc' = "apply"
                /\ result' = result
                /\ cortex' = cortex
           ELSE /\ pc' = "done"
                /\ result' = <<Err(r.err)>>
                /\ cortex' = new_144
    /\ UNCHANGED <<manifoldVars, models, embedding, operator, scheduler,
                   idx, working, cortex0, input, prev, lastCall, built, chartVars>>

\* The scheduling step going on to the operator while the scheduler call is
\* still running (a faulty variant: the dispatch is spawned and not awaited).
ScheduleStepDetached ==
    /\ pc = "schedule"
    /\ Stage("schedule", 0) \in active
    /\ trace' = Append(trace, Call(Stage("schedule", 0), working, Ok(Unit)))
    /\ pc' = "apply"
    /\ UNCHANGED <<manifoldVars, stackVars, idx, working, result, cortex0, input, prev,
                   active, lastCall, built, chartVars>>

\* The scheduling step handing the scheduler the manifold itself, which the
\* scheduler empties as it dispatches the nodes (a faulty variant).
ScheduleStepDrainsManifold ==
    /\ pc = "schedule"
    /\ Returns(Stage("schedule", 0))
    /\ \E r \in schedule(scheduler, working) :
        /\ trace' = Append(trace, Call(Stage("schedule", 0), working, r))
        /\ IF r.ok
           THEN /\ pc' = "apply"
                /\ result' = result
           ELSE /\ pc' = "done"
                /\ result' = <<Err(r.err)>>
    /\ working' = Manifold_new
    /\ UNCHANGED <<manifoldVars, stackVars, idx, cortex0, input, prev, lastCall, built, chartVars>>

\*     self.scheduler.schedule(&manifold)?;
ScheduleStep ==
    /\ pc = "schedule"
    /\ Returns(Stage("schedule", 0))
    /\ \E r \in schedule(scheduler, working) :
        /\ trace' = Append(trace, Call(Stage("schedule", 0), working, r))
        /\ IF r.ok
           THEN /\ pc' = "apply"
                /\ result' = result
           ELSE /\ pc' = "done"
                /\ result' = <<Err(r.err)>>
    /\ UNCHANGED <<manifoldVars, stackVars, idx, working, cortex0, input, prev, lastCall, built, chartVars>>

\* The operator step recording its run in the first reference of the Cortex
\* (a faulty variant).
ApplyStepWritesCortex ==
    /\ pc = "apply"
    /\ Returns(Stage("apply", 0))
    /\ \E r \in apply(operator, working) :
        /\ trace' = Append(trace, Call(Stage("apply", 0), working, r))
        /\ IF r.ok
           THEN /\ working' = r.val
                /\ pc' = "embed"
                /\ result' = result
           ELSE /\ pc' = "done"
                /\ result' = <<Err(r.err)>>
                /\ working' = working
    /\ cortex' = [cortex EXCEPT !.references[1].data = Some(1)]
    /\ UNCHANGED <<manifoldVars, models, embedding, operator, scheduler,
                   idx, cortex0, input, prev, lastCall, built, chartVars>>

\* The operator step dropping the operator's result and going on with an empty
\* manifold (a faulty variant).
ApplyStepLosesManifold ==
    /\ pc = "apply"
    /\ Returns(Stage("apply", 0))
    /\ \E r \in apply(operator, working) :
        /\ trace' = Append(trace, Call(Stage("apply", 0), working, r))
        /\ IF r.ok
           THEN /\ working' = Manifold_new
                /\ pc' = "embed"
                /\ result' = result
           ELSE /\ pc' = "done"
                /\ result' = <<Err(r.err)>>
                /\ working' = working
    /\ UNCHANGED <<manifoldVars, stackVars, idx, cortex0, input, prev, lastCall, built, chartVars>>

\*     manifold = self.operator.apply(&manifold)?;
ApplyStep ==
    /\ pc = "apply"
    /\ Returns(Stage("apply", 0))
    /\ \E r \in apply(operator, working) :
        /\ trace' = Append(trace, Call(Stage("apply", 0), working, r))
        /\ IF r.ok
           THEN /\ working' = r.val
                /\ pc' = "embed"
                /\ result' = result
           ELSE /\ pc' = "done"
                /\ result' = <<Err(r.err)>>
                /\ working' = working
    /\ UNCHANGED <<manifoldVars, stackVars, idx, cortex0, input, prev, lastCall, built, chartVars>>

\*     let _quaternions = self.embedding.embed_manifold(&manifold, &mut self.cortex)?;
\*     Ok(())
EmbedStep ==
    /\ pc = "embed"
    /\ Returns(Stage("embed_manifold", 0))
    /\ \E o \in embed_manifold(embedding, working, cortex) :
        /\ trace' = Append(trace, Call(Stage("embed_manifold", 0), working, o.ret))
        /\ cortex' = o.cortex
        /\ pc' = "done"
        /\ result' = IF o.ret.ok THEN <<Ok(Unit)>> ELSE <<Err(o.ret.err)>>
    /\ UNCHANGED <<manifoldVars, models, embedding, operator, scheduler,
                   idx, working, cortex0, input, prev, lastCall, built, chartVars>>

\* --------------------------------------------------------- specifications
\* A stack as new_default returns it; the manifold side is not exercised.
Init ==
    /\ manifold = Manifold_new
    /\ log = <<>>
    /\ models \in ModelLists
    /\ embedding = "DefaultQuaternionEmbedding"
    /\ operator = "ExampleOperator"
    /\ scheduler = "RoundRobinScheduler"
    /\ cortex = MemoryCortex_default
    /\ pc = "idle"
    /\ idx = 0
    /\ working = Manifold_new
    /\ result = <<>>
    /\ trace = <<>>
    /\ cortex0 = MemoryCortex_default
    /\ input = Manifold_new
    /\ prev = "none"
    /\ active = {}
    /\ chartCall = <<>>
    /\ parsed = <<>>
    /\ lastCall = "new_default"
    /\ built = 1

Next ==
    \/ \E ms \in ModelLists : NewDefault(ms)
    \/ \E k \in ModelKinds : Default(k)
    \/ \E s \in SchedulerKinds, o \in OperatorKinds, e \in EmbeddingKinds : Install(s, o, e)
    \/ \E m \in SampleManifolds : LinkManifold(m)
    \/ \E m \in SampleManifolds : ProcessStart(m)
    \/ CallStage
    \/ ModelStep
    \/ ScheduleStep
    \/ ApplyStep
    \/ EmbedStep

Spec == Init /\ [][Next]_vars

\* A caller that keeps the one stack it constructed, installs its own stages or
\* not, and calls process on it again and again.
RunNext ==
    \/ \E s \in SchedulerKinds, o \in OperatorKinds, e \in EmbeddingKinds : Install(s, o, e)
    \/ \E m \in SampleManifolds : ProcessStart(m)
    \/ CallStage
    \/ ModelStep
    \/ ScheduleStep
    \/ ApplyStep
    \/ EmbedStep

\* The runs of that caller with the scheduling of process: process is sequential
\* code, so it makes the stage call of its program point, and every stage call
\* returns.
LiveSpec ==
    /\ Init
    /\ [][RunNext]_vars
    /\ WF_vars(CallStage)
    /\ WF_vars(ModelStep)
    /\ WF_vars(ScheduleStep)
    /\ WF_vars(ApplyStep)
    /\ WF_vars(EmbedStep)

\* Manifold::new(), with no stack in use.
ManifoldInit ==
    /\ manifold = Manifold_new
    /\ log = <<>>
    /\ models = <<>>
    /\ embedding = "DefaultQuaternionEmbedding"
    /\ operator = "ExampleOperator"
    /\ scheduler = "RoundRobinScheduler"
    /\ cortex = MemoryCortex_default
    /\ pc = "idle"
    /\ idx = 0
    /\ working = Manifold_new
    /\ result = <<>>
    /\ trace = <<>>
    /\ cortex0 = MemoryCortex_default
    /\ input = Manifold_new
    /\ prev = "none"
    /\ active = {}
    /\ chartCall = <<>>
    /\ parsed = <<>>
    /\ lastCall = "new_default"
    /\ built = 1

ManifoldNext ==
    \/ \E id \in NodeIds, data \in NodeData : AddNode(id, data)
    \/ \E from \in NodeIds, to \in NodeIds : AddEdge(from, to)

ManifoldSpec == ManifoldInit /\ [][ManifoldNext]_vars

\* No Chart yet, no manifold and no stack in use.
ChartInit == ManifoldInit

ChartNext ==
    \/ \E name \in Names, version \in Names, json_data \in Strings :
          FromJson(name, version, json_data)
    \/ Parse

ChartSpec == ChartInit /\ [][ChartNext]_vars

\* ------------------------------------------------- claims: the Manifold
\* The last call recorded in the log, and whether the step just taken made it.
LastOp(l) == l[Len(l)]
Called(op) == Len(log') = Len(log) + 1 /\ LastOp(log').op = op
Present(m, id) == id \in DOMAIN m.nodes

\* C1: add_edge(from, to) returns an error if and only if from or to is absent
\* from the node mapping when it is called, and a failed call leaves the manifold
\* (nodes, every adjacency list, the keys of the edge map) as it was.
C1_AddEdgeFailsIffEndpointMissing ==
    [][Called("add_edge") =>
        LET e == LastOp(log')
        IN  /\ (~e.ret.ok) <=> (~Present(manifold, e.from) \/ ~Present(manifold, e.to))
            /\ (~e.ret.ok) =>
                /\ manifold'.nodes = manifold.nodes
                /\ DOMAIN manifold'.edges = DOMAIN manifold.edges
                /\ manifold'.edges = manifold.edges]_vars

\* C1 witness: on a manifold that holds a node, one add_edge failed for a missing
\* endpoint and another succeeded.
C1_Witness ==
    /\ \E i \in 2..Len(log) : log[i].op = "add_edge" /\ ~log[i].ret.ok
    /\ \E j \in 1..Len(log) : log[j].op = "add_edge" /\ log[j].ret.ok

\* C6: every key of the edge map and every destination in every adjacency list
\* is a key of the node mapping.
C6_EdgesReferencePresentNodes ==
    \A from \in DOMAIN manifold.edges :
        /\ Present(manifold, from)
        /\ \A j \in 1..Len(manifold.edges[from]) : Present(manifold, manifold.edges[from][j])

\* C6 witness: the manifold holds an edge between two different nodes, and an
\* add_edge was refused on the way.
C6_Witness ==
    /\ \E from \in DOMAIN manifold.edges :
          \E j \in 1..Len(manifold.edges[from]) : manifold.edges[from][j] # from
    /\ \E i \in 1..Len(log) : log[i].op = "add_edge" /\ ~log[i].ret.ok

\* The positions of the log that are add_node calls, and the ids they inserted.
Inserts == {i \in 1..Len(log) : log[i].op = "add_node"}
InsertedIds == {log[i].id : i \in Inserts}
LastInsert(id) ==
    CHOOSE i \in Inserts : log[i].id = id /\ \A j \in Inserts : log[j].id = id => j <= i

\* C7: after any sequence of add_node calls (ids may repeat) the node count is
\* the number of distinct ids inserted (so it grows only on the first insertion
\* of an id), and each id maps to the node of the last insert of that id.
C7_AddNodeLastWriteWins ==
    /\ Cardinality(DOMAIN manifold.nodes) = Cardinality(InsertedIds)
    /\ DOMAIN manifold.nodes = InsertedIds
    /\ \A id \in InsertedIds :
          manifold.nodes[id] = ManifoldNode(id, log[LastInsert(id)].data)

\* C7 witness: an id was inserted twice with different payloads, and more calls
\* were made than there are nodes.
C7_Witness ==
    /\ \E i \in Inserts, j \in Inserts :
          i < j /\ log[i].id = log[j].id /\ log[i].data # log[j].data
    /\ Cardinality(Inserts) > Cardinality(DOMAIN manifold.nodes)
    /\ Cardinality(DOMAIN manifold.nodes) >= 2

\* ---------------------------------------------------- claims: the stack
\* The number of Domain Transform stages, the stage calls of the run so far, and
\* the calls made of one stage.
N == Len(models)
Calls == 1..Len(trace)
CallsOf(stage) == {k \in Calls : trace[k].stage = stage}
Returned == pc = "done"
Failed == Returned /\ ~result[1].ok
Succeeded == Returned /\ result[1].ok

\* C2: Domain Transform stage i is called only after stage i - 1 returned
\* success, never twice, and a run in which every stage succeeds makes exactly
\* N + 3 stage calls: each of the N stages once, one schedule, one apply, one embed.
C2_EachStageOnceInOrder ==
    /\ \A k \in Calls :
          trace[k].stage.name = "process_manifold" =>
              /\ trace[k].stage.k \in 1..N
              /\ Cardinality(CallsOf(trace[k].stage)) = 1
              /\ trace[k].stage.k > 1 =>
                    /\ k > 1
                    /\ trace[k - 1].stage = Stage("process_manifold", trace[k].stage.k - 1)
                    /\ trace[k - 1].ret.ok
    /\ (Returned /\ \A k \in Calls : trace[k].ret.ok) =>
          /\ Len(trace) = N + 3
          /\ \A i \in 1..N : Cardinality(CallsOf(Stage("process_manifold", i))) = 1
          /\ Cardinality(CallsOf(Stage("schedule", 0))) = 1
          /\ Cardinality(CallsOf(Stage("apply", 0))) = 1
          /\ Cardinality(CallsOf(Stage("embed_manifold", 0))) = 1

\* C2 witness: a run over two user-written stages returned with every stage
\* call successful.
C2_Witness ==
    /\ Returned /\ N = 2 /\ models[1] = "Custom"
    /\ Len(trace) > 0 /\ \A k \in Calls : trace[k].ret.ok

\* C3: when a stage call returns an error, process returns that very error,
\* no further stage is called in the run, and the failing stage is not called again.
C3_FirstFailureReturnedUnchanged ==
    \A k \in Calls :
        ~trace[k].ret.ok =>
            /\ k = Len(trace)
            /\ Returned
            /\ result = <<Err(trace[k].ret.err)>>
            /\ Cardinality(CallsOf(trace[k].stage)) = 1

\* C3 witness: the first of two Domain Transform stages failed with a
\* ConcurrencyError and process has returned.
C3_Witness ==
    /\ Failed /\ N = 2 /\ Len(trace) = 1
    /\ result[1].err.kind = "ConcurrencyError"

\* C4: schedule is called only after all N Domain Transform stages returned
\* success in list order, apply only after schedule returned success, embed only
\* after apply returned success, and process returns success only after embed
\* returned success.
C4_PhasesInFixedOrder ==
    /\ \A k \in Calls :
          /\ trace[k].stage.name = "schedule" =>
                /\ k = N + 1
                /\ \A i \in 1..N :
                      trace[i].stage = Stage("process_manifold", i) /\ trace[i].ret.ok
          /\ trace[k].stage.name = "apply" =>
                k > 1 /\ trace[k - 1].stage.name = "schedule" /\ trace[k - 1].ret.ok
          /\ trace[k].stage.name = "embed_manifold" =>
                k > 1 /\ trace[k - 1].stage.name = "apply" /\ trace[k - 1].ret.ok
    /\ Succeeded =>
          /\ Len(trace) > 0
          /\ trace[Len(trace)].stage.name = "embed_manifold"
          /\ trace[Len(trace)].ret.ok

\* C4 witness: a run through user-written scheduler, operator and embedding, with
\* at least one Domain Transform stage, returned success.
C4_Witness ==
    /\ Succeeded /\ N >= 1
    /\ scheduler = "Custom" /\ operator = "Custom" /\ embedding = "Custom"

\* C5 as stated: whichever stage failed, the Cortex after a failed run is the
\* Cortex before the run.
C5_FailedRunLeavesCortex == Failed => cortex = cortex0

\* C5, amended: when the error comes from a Domain Transform, the Scheduler or
\* the Operator, the Cortex after the failed run is the Cortex before the run
\* (a failing Embedding leaves what it wrote: process does not roll back).
C5_FailureBeforeEmbedLeavesCortex ==
    (Failed /\ trace[Len(trace)].stage.name # "embed_manifold") => cortex = cortex0

\* C5 witness: the scheduler failed in a run that started with a written Cortex.
C5_Witness ==
    /\ Failed /\ trace[Len(trace)].stage.name = "schedule"
    /\ cortex0 # new_144

\* The references as the constructor lays them out: 144 of them, the one at Vec
\* position p carrying prime_index p.
Positional(cx) ==
    /\ Len(cx.references) = 144
    /\ \A p \in 0..143 : cx.references[p + 1].prime_index = p

\* C8: a freshly constructed Cortex has 144 slots, all empty, slot i carrying
\* prime_index i, however many Cortexes were constructed before.
C8_FreshCortex ==
    lastCall \in {"new_default", "default"} =>
        /\ Positional(cortex)
        /\ \A p \in 0..143 : cortex.references[p + 1].data = None

\* C8 witness: a stack constructed after an earlier one.
C8_Witness == lastCall = "new_default" /\ built >= 2

C10_CortexWrittenOnlyByEmbed ==
    pc \in {"models", "schedule", "apply", "embed"} => cortex = cortex0

\* C10 witness: a run on a written Cortex stands before its Embedding call, the
\* Domain Transform, Scheduler and Operator calls made.
C10_Witness == pc = "embed" /\ Len(trace) >= 3 /\ cortex0 # new_144

\* C11: at every point of a run at most one stage call is in progress, it is
\* the call of the current program point, none is in progress once process has
\* returned, and apply is in progress only after schedule has returned.
C11_StageCallsSerialized ==
    /\ Cardinality(active) <= 1
    /\ \A st \in active : pc \in {"models", "schedule", "apply", "embed"} /\ st = CurrentStage
    /\ Stage("apply", 0) \in active =>
          \E k \in Calls : trace[k].stage = Stage("schedule", 0) /\ trace[k].ret.ok
    /\ \A st \in active : CallsOf(st) = {}

\* C11 witness: the apply call of a run with a user-written scheduler and a
\* Domain Transform stage is in progress.
C11_Witness ==
    /\ Stage("apply", 0) \in active
    /\ scheduler = "Custom" /\ N >= 1

\* The manifold the Domain Transform stages hand on: the result of stage N, or
\* the manifold process was called with when there is no stage.
AfterModels == IF N = 0 THEN input ELSE trace[N].ret.val

\* C12: the manifold passed to apply is the manifold passed to schedule, which
\* is the result of the last Domain Transform stage.
C12_ScheduleLeavesManifold ==
    /\ \A k \in Calls :
          trace[k].stage.name = "apply" =>
              /\ k > 1
              /\ trace[k - 1].stage.name = "schedule"
              /\ trace[k].arg = trace[k - 1].arg
              /\ trace[k - 1].arg = AfterModels
    /\ pc = "apply" => working = trace[Len(trace)].arg

\* C12 witness: apply was called after a user-written scheduler, on a non-empty
\* manifold that a Domain Transform stage returned in place of the input.
C12_Witness ==
    /\ scheduler = "Custom" /\ N >= 1
    /\ \E k \in Calls :
          /\ trace[k].stage.name = "apply"
          /\ trace[k].arg = TestManifold
          /\ trace[k].arg # input

\* Every slot of the Cortex is empty.
AllEmpty(cx) == \A k \in 1..Len(cx.references) : cx.references[k].data = None

\* C13: a default-constructed stack has exactly one Domain Transform stage and
\* a Cortex of 144 slots, all empty.
C13_DefaultStackShape ==
    lastCall = "default" =>
        /\ Len(models) = 1
        /\ Len(cortex.references) = 144
        /\ AllEmpty(cortex)

\* C13 witness: a stack just returned by default(), built after an earlier stack.
C13_Witness == lastCall = "default" /\ pc = "idle" /\ built >= 2

\* The node count and the edge count (the adjacency entries) of a manifold.
NodeCount(m) == Cardinality(DOMAIN m.nodes)
EdgeCount(m) ==
    Cardinality(UNION {{<<from, j>> : j \in 1..Len(m.edges[from])} : from \in DOMAIN m.edges})

\* In the run so far every Domain Transform and the Operator returned a manifold
\* equal to the one it was given.
IdentityBehaved ==
    \A k \in Calls :
        trace[k].stage.name \in {"process_manifold", "apply"} =>
            trace[k].ret.ok /\ trace[k].ret.val = trace[k].arg

\* C14: when every Domain Transform and the Operator are identity-behaved, the
\* manifold handed to the Embedding has the node count and the edge count (and
\* the number of edge-map keys) of the manifold process was called with.
C14_NoOpStagesPreserveShape ==
    IdentityBehaved =>
        \A k \in Calls :
            trace[k].stage.name = "embed_manifold" =>
                /\ NodeCount(trace[k].arg) = NodeCount(input)
                /\ EdgeCount(trace[k].arg) = EdgeCount(input)
                /\ Cardinality(DOMAIN trace[k].arg.edges) = Cardinality(DOMAIN input.edges)

\* C14 witness: a run over two stages on the manifold of 2 nodes and 1 edge
\* returned success with every stage identity-behaved.
C14_Witness ==
    /\ Succeeded /\ IdentityBehaved /\ N = 2
    /\ NodeCount(input) = 2 /\ EdgeCount(input) = 1

\* The stages of the library, which are stubs.
StubModels == {"NullFoundationModel", "UorKernel"}

\* C16: every call of NullFoundationModel::process_manifold, of
\* UorKernel::process_manifold and of ExampleOperator::apply returns success with
\* a manifold equal to its argument.
C16_StubStagesAreIdentities ==
    \A k \in Calls :
        /\ (trace[k].stage.name = "process_manifold" /\ models[trace[k].stage.k] \in StubModels)
              => trace[k].ret = Ok(trace[k].arg)
        /\ (trace[k].stage.name = "apply" /\ operator = "ExampleOperator")
              => trace[k].ret = Ok(trace[k].arg)

\* C16 witness: two UorKernel stages and the ExampleOperator have returned in a
\* run on the manifold of 2 nodes and 1 edge.
C16_Witness ==
    /\ models = <<"UorKernel", "UorKernel">> /\ operator = "ExampleOperator"
    /\ input = TestManifold
    /\ \E k \in Calls : trace[k].stage.name = "apply"

\* A stack of stub stages with the default scheduler, operator and embedding.
StubStack ==
    /\ \A i \in 1..N : models[i] \in StubModels
    /\ scheduler = "RoundRobinScheduler"
    /\ operator = "ExampleOperator"
    /\ embedding = "DefaultQuaternionEmbedding"

\* C17: on a stack of NullFoundationModel or UorKernel stages with the default
\* scheduler, operator and embedding, no stage call fails, process returns
\* success, and every Cortex slot is empty after the run.
C17_StubStackSucceeds ==
    StubStack =>
        /\ \A k \in Calls : trace[k].ret.ok
        /\ Returned => result = <<Ok(Unit)>>
        /\ AllEmpty(cortex)

\* C17 witness: process returned on a stack of a NullFoundationModel and a
\* UorKernel stage run on the manifold of 2 nodes and 1 edge.
C17_Witness ==
    /\ StubStack /\ Returned /\ models = <<"NullFoundationModel", "UorKernel">>
    /\ input = TestManifold

\* C20: stage 1 receives the manifold process was called with, stage i > 1 the
\* manifold stage i - 1 returned, the Scheduler and the Operator the manifold
\* stage N returned (the initial one when N = 0), and the Embedding the manifold
\* apply returned.
C20_ManifoldThreadedForward ==
    \A k \in Calls :
        LET c == trace[k]
        IN  /\ (c.stage.name = "process_manifold" /\ c.stage.k = 1) => c.arg = input
            /\ (c.stage.name = "process_manifold" /\ c.stage.k > 1) =>
                  /\ k > 1
                  /\ trace[k - 1].stage = Stage("process_manifold", c.stage.k - 1)
                  /\ trace[k - 1].ret.ok
                  /\ c.arg = trace[k - 1].ret.val
            /\ c.stage.name \in {"schedule", "apply"} => c.arg = AfterModels
            /\ c.stage.name = "embed_manifold" =>
                  /\ k > 1
                  /\ trace[k - 1].stage.name = "apply"
                  /\ trace[k - 1].ret.ok
                  /\ c.arg = trace[k - 1].ret.val

\* C20 witness: a successful run over two stages in which stage 1, stage 2 and
\* the Operator each returned a manifold different from the one it was given.
C20_Witness ==
    /\ Succeeded /\ N = 2
    /\ \A k \in {1, 2, 4} : trace[k].ret.val # trace[k].arg

\* ---------------------------------------- claims: the Manifold, continued
RECURSIVE SuccessfulEdges(_, _)
\* The destinations of the successful add_edge(from, _) calls among the first n
\* calls of the log, in call order.
SuccessfulEdges(from, n) ==
    IF n = 0 THEN <<>>
    ELSE LET e == log[n]
             before == SuccessfulEdges(from, n - 1)
         IN  IF e.op = "add_edge" /\ e.from = from /\ e.ret.ok
             THEN Append(before, e.to)
             ELSE before

\* The adjacency list of from (empty when from is no key of the edge map).
Adjacency(m, from) == IF from \in DOMAIN m.edges THEN m.edges[from] ELSE <<>>

\* C15: the adjacency list of every node is the sequence of destinations of the
\* successful add_edge calls from it, in call order: each call appended one
\* occurrence at the end, duplicates stay, earlier entries keep their order.
C15_DuplicateEdgesKept ==
    /\ [](\A from \in NodeIds : Adjacency(manifold, from) = SuccessfulEdges(from, Len(log)))
    /\ [][Called("add_edge") /\ LastOp(log').ret.ok =>
            LET e == LastOp(log')
            IN  Adjacency(manifold', e.from) = Append(Adjacency(manifold, e.from), e.to)]_vars

\* C15 witness: one adjacency list holds the same destination twice.
C15_Witness ==
    \E from \in DOMAIN manifold.edges :
        \E i, j \in 1..Len(manifold.edges[from]) :
            i < j /\ manifold.edges[from][i] = manifold.edges[from][j]

\* C18: the error add_edge returns for a missing endpoint is a
\* UorError::General whose message names the two endpoints.
C18_MissingEndpointIsGeneralError ==
    \A i \in 1..Len(log) :
        (log[i].op = "add_edge" /\ ~log[i].ret.ok) =>
            /\ log[i].ret.err.kind = "General"
            /\ log[i].ret.err.kind \notin {"ChartError", "ConcurrencyError", "Other"}
            /\ log[i].ret.err.msg # <<>>
            /\ log[i].ret.err.msg = edge_msg(log[i].from, log[i].to)

\* C18 witness: an add_edge between two different ids failed although a node
\* was present.
C18_Witness ==
    \E i \in 2..Len(log) :
        /\ log[i].op = "add_edge" /\ ~log[i].ret.ok /\ log[i].from # log[i].to
        /\ log[1].op = "add_node"

\* Some node of the manifold lies on a directed cycle.
Cyclic(m) == \E a \in DOMAIN m.nodes : Reaches(m, a, a)

\* C22: add_edge(from, to) succeeds for every pair of present node ids, also
\* when from = to and when to already reaches from, and the manifold then
\* holds a directed cycle: no acyclicity check is made on insertion.
C22_AddEdgeAcceptsCycles ==
    [][Called("add_edge") =>
        LET e == LastOp(log')
        IN  (Present(manifold, e.from) /\ Present(manifold, e.to)) =>
                /\ e.ret.ok
                /\ (e.from = e.to \/ Reaches(manifold, e.to, e.from)) => Cyclic(manifold')]_vars

\* C22 witness: the manifold holds a directed cycle through two different nodes,
\* closed by the last add_edge.
C22_Witness ==
    /\ \E a, b \in DOMAIN manifold.nodes :
          a # b /\ Reaches(manifold, a, b) /\ Reaches(manifold, b, a)
    /\ Len(log) > 0 /\ LastOp(log).op = "add_edge" /\ LastOp(log).ret.ok
    /\ LastOp(log).from # LastOp(log).to

\* C24: add_node, an overwrite included, leaves the edge map (every adjacency
\* list and its keys) and every other node as they were; a successful
\* add_edge(from, to) leaves the node mapping and the adjacency list of every
\* node other than from as they were.
C24_OperationsTouchOwnPart ==
    [][/\ Called("add_node") =>
            /\ manifold'.edges = manifold.edges
            /\ \A id \in DOMAIN manifold.nodes :
                  id # LastOp(log').id =>
                      id \in DOMAIN manifold'.nodes /\ manifold'.nodes[id] = manifold.nodes[id]
       /\ (Called("add_edge") /\ LastOp(log').ret.ok) =>
            /\ manifold'.nodes = manifold.nodes
            /\ \A id \in NodeIds :
                  id # LastOp(log').from =>
                      /\ (id \in DOMAIN manifold'.edges) <=> (id \in DOMAIN manifold.edges)
                      /\ Adjacency(manifold', id) = Adjacency(manifold, id)]_vars

\* C24 witness: a node that has an outgoing edge was overwritten by add_node
\* with another payload.
C24_Witness ==
    \E i, j, k \in 1..Len(log) :
        /\ i < j /\ j < k
        /\ log[i].op = "add_node" /\ log[k].op = "add_node"
        /\ log[j].op = "add_edge" /\ log[j].ret.ok
        /\ log[i].id = log[j].from /\ log[k].id = log[j].from
        /\ log[i].data # log[k].data

\* C25: every adjacency list stored in the edge map is non-empty, a key is in
\* the edge map only after an add_edge from it has succeeded, and the number of
\* keys is the number of nodes with at least one successful add_edge from them.
C25_AdjacencyListsNonEmpty ==
    /\ \A from \in DOMAIN manifold.edges :
          /\ Len(manifold.edges[from]) >= 1
          /\ SuccessfulEdges(from, Len(log)) # <<>>
    /\ Cardinality(DOMAIN manifold.edges) =
          Cardinality({id \in DOMAIN manifold.nodes : SuccessfulEdges(id, Len(log)) # <<>>})

\* C25 witness: add_edge failed from a present node that has no outgoing edge,
\* the node is no key of the edge map, and another node is.
C25_Witness ==
    /\ DOMAIN manifold.edges # {}
    /\ \E i \in 2..Len(log) :
          /\ log[i].op = "add_edge" /\ ~log[i].ret.ok
          /\ log[i].from \in DOMAIN manifold.nodes
          /\ log[i].from \notin DOMAIN manifold.edges
          /\ \E h \in 1..(i - 1) : log[h].op = "add_node" /\ log[h].id = log[i].from

\* ------------------------------------------- claims: the stack, continued
\* C21: new_default accepts a stage list of any length, 0 and more than 12
\* included; a run calls the N stages in list order, all N when none fails, and
\* with N = 0 it calls schedule, apply and embed on the manifold it was given.
C21_StageCountUnbounded ==
    /\ (pc \in {"idle", "done"} /\ built < MaxBuilt) =>
          \A ms \in ModelLists : ENABLED NewDefault(ms)
    /\ \A k \in Calls : k <= N => trace[k].stage = Stage("process_manifold", k)
    /\ (Returned /\ \A k \in Calls : trace[k].ret.ok) =>
          /\ Len(trace) = N + 3
          /\ trace[N + 1].stage.name = "schedule"
          /\ trace[N + 2].stage.name = "apply"
          /\ trace[N + 3].stage.name = "embed_manifold"
    /\ (N = 0 /\ Len(trace) > 0) =>
          trace[1].stage.name = "schedule" /\ trace[1].arg = input

\* C21 witness: a run over more than 12 stages returned success, every stage
\* called.
C21_Witness ==
    /\ Succeeded /\ N > 12
    /\ \A i \in 1..N : trace[i].stage = Stage("process_manifold", i)

\* A run is under way, and how far it has come: the phases in protocol order,
\* each counted once for "entered" and once for "its stage call in progress".
Running == pc \in {"models", "schedule", "apply", "embed"}
Rank ==
    LET a == IF active = {} THEN 0 ELSE 1
    IN  CASE pc = "models" -> 2 * idx + a
          [] pc = "schedule" -> 2 * (N + 1) + a
          [] pc = "apply" -> 2 * (N + 2) + a
          [] pc = "embed" -> 2 * (N + 3) + a
          [] pc = "done" -> 2 * (N + 4)
          [] OTHER -> 0

\* C23: every step of a run moves it forward in the protocol order (no phase
\* is entered twice, none is gone back to), a run that has ended has exactly
\* one outcome, success or a failure, and, every stage call returning, every
\* run ends.
C23_RunsEndAndNeverGoBack ==
    /\ [][Running => Rank' > Rank]_vars
    /\ [](Returned => (Len(result) = 1 /\ (Succeeded <=> ~Failed)))
    /\ Running ~> Returned

\* C23 witness: a run over two user-written stages has ended, failed by the
\* Operator after the stages and the Scheduler succeeded.
C23_Witness ==
    /\ Failed /\ N = 2 /\ models[1] = "Custom"
    /\ trace[Len(trace)].stage.name = "apply"

\* The step is a call of process on a stack that is not in a run.
RunStarts == pc \in {"idle", "done"} /\ pc' \in {"models", "schedule"}

\* C26: a run, failed or not, leaves the stage list of the stack as it was,
\* and a further process call starts again before stage 1 with an empty call
\* history and the Cortex the earlier runs left; its calls are the stages in
\* list order.
C26_StackReusable ==
    /\ [][(Running \/ RunStarts) => models' = models]_vars
    /\ [][RunStarts =>
            /\ cortex' = cortex
            /\ cortex0' = cortex
            /\ idx' = 1
            /\ trace' = <<>>
            /\ pc' = IF Len(models) = 0 THEN "schedule" ELSE "models"]_vars
    /\ [](\A k \in Calls : k <= N => trace[k].stage = Stage("process_manifold", k))

\* C26 witness: after a failed run on the stack, a further run on the Cortex an
\* earlier run wrote has called both stages of the stack.
C26_Witness ==
    /\ prev = "err" /\ N = 2 /\ cortex0 # new_144
    /\ \A i \in 1..2 : i \in Calls /\ trace[i].stage = Stage("process_manifold", i)

\* ---------------------------------------------------- claims: the Chart
\* C19: Chart::from_json(name, version, json) fails, with a ChartError, if and
\* only if json is empty; otherwise the chart's name, version and raw_json are
\* the three arguments, and parse on that chart succeeds.
C19_FromJsonFailsIffEmpty ==
    \A i \in 1..Len(chartCall) :
        LET c == chartCall[i]
        IN  /\ (~c.ret.ok) <=> (c.json_data = <<>>)
            /\ (~c.ret.ok) => c.ret.err.kind = "ChartError"
            /\ c.ret.ok =>
                  /\ c.ret.val.name = c.name
                  /\ c.ret.val.version = c.version
                  /\ c.ret.val.raw_json = c.json_data
                  /\ \A j \in 1..Len(parsed) : parsed[j] = Ok(Unit)

\* C19 witness: from_json succeeded with an empty name and a version different
\* from the JSON text, and parse has been called on the chart.
C19_Witness ==
    /\ chartCall # <<>> /\ parsed # <<>>
    /\ chartCall[1].name = <<>>
    /\ chartCall[1].version # chartCall[1].json_data

=============================================================================
